---- MODULE Spec2Model ----
(***************************************************************************)
(* Vehicle inspection checks: the request validator, the check service    *)
(* (createCheck / getChecks / deleteCheck), the JSON-file record store    *)
(* and the three /checks HTTP handlers of the backend; of the frontend,    *)
(* the CheckHistory component and the useToast hook.                       *)
(*                                                                         *)
(* JavaScript values are records [t, s, n]: t is the value's kind, s the   *)
(* text of a string, n the number (for a string: its length).  An absent   *)
(* property reads as undefined, so Undef stands for "property absent".     *)
(* An array carries its elements in the extra field els.                   *)
(***************************************************************************)
EXTENDS Integers, Sequences, FiniteSets

VARIABLES
  checksFile,  \* the parsed content of data/checks.json: a sequence of checks
  nextId,      \* number of ids uuidv4() has handed out
  clock,       \* the wall clock, in milliseconds
  op,          \* the handler that ran last: "none", "POST", "GET", "DELETE"
  request,     \* what that handler was given
  val,         \* what validateCheckRequest did in that handler
  svc,         \* what the checkService call of that handler did
  response,    \* the HTTP response that handler sent
  running,     \* createCheck executions in progress, when several run on one store
  history,     \* the state of the CheckHistory component and its requests in flight
  toasts,      \* the toasts state of useToast
  toastIdCounter,  \* the module-level counter of useToast.ts
  toastCall    \* the last call made on useToast: its function and the id involved

vars == <<checksFile, nextId, clock, op, request, val, svc, response,
          running, history, toasts, toastIdCounter, toastCall>>

\* what the handlers of the backend never touch
elsewhere == <<running, history, toasts, toastIdCounter, toastCall>>

----------------------------------------------------------------------------
(* JavaScript values *)

Undef == [t |-> "undefined", s |-> "", n |-> 0]

Null == [t |-> "null", s |-> "", n |-> 0]

Str(text, length) == [t |-> "string", s |-> text, n |-> length]

Num(x) == [t |-> "number", s |-> "", n |-> x]

\* the number NaN: falsy, and every comparison with it is false
NaN == [t |-> "number", s |-> "NaN", n |-> 0]

\* x <= 0 for a number x
LeqZero(v) == v.s # "NaN" /\ v.n <= 0

Bool(b) == [t |-> "boolean", s |-> "", n |-> IF b THEN 1 ELSE 0]

Arr(elements) == [t |-> "array", s |-> "", n |-> Len(elements), els |-> elements]

\* an object that is no array, such as {}
PlainObject == [t |-> "object", s |-> "", n |-> 0]

\* ToBoolean: undefined, null, "", 0 and false are falsy; objects and arrays are truthy
Truthy(v) ==
  CASE v.t = "undefined" -> FALSE
    [] v.t = "null" -> FALSE
    [] v.t = "string" -> v.n > 0
    [] v.t = "number" -> v.n # 0
    [] v.t = "boolean" -> v.n = 1
    [] OTHER -> TRUE

\* the typeof operator: null and arrays are "object"
TypeOf(v) == IF v.t \in {"null", "array", "object"} THEN "object" ELSE v.t

\* Array.isArray
IsArray(v) == v.t = "array"

\* x === undefined || x === null: a property read on it throws a TypeError
Nullish(v) == v.t \in {"undefined", "null"}

\* an element of the items array: an object {key, status}, or any other value
\* (a property read on a primitive gives undefined)
Item(k, st) == [t |-> "object", key |-> k, status |-> st]

NullItem == [t |-> "null", key |-> Undef, status |-> Undef]

NumberItem == [t |-> "number", key |-> Undef, status |-> Undef]

\* a request body: an object with these four properties, or null
Body(v, o, i, nt) == [t |-> "object", vehicleId |-> v, odometerKm |-> o, items |-> i, note |-> nt]

\* a body that also carries the properties the server sets: hasIssue, id, createdAt
BodyWithServerFields(b, hi, i, at) ==
  [t |-> "object", vehicleId |-> b.vehicleId, odometerKm |-> b.odometerKm,
   items |-> b.items, note |-> b.note, hasIssue |-> hi, id |-> i, createdAt |-> at]

NullBody == [t |-> "null", vehicleId |-> Undef, odometerKm |-> Undef, items |-> Undef, note |-> Undef]

----------------------------------------------------------------------------
(* database.ts: the vehicle catalogue *)

\* the seeded vehicles (data/vehicles.json)
Vehicles == {"VH001", "VH002"}

vehicleExists_any(vehicleId) == TRUE

vehicleExists(vehicleId) == vehicleId \in Vehicles

----------------------------------------------------------------------------
(* validation.ts *)

VALID_KEYS == <<"TYRES", "BRAKES", "LIGHTS", "OIL", "COOLANT">>

VALID_STATUSES == <<"OK", "FAIL">>

NOTE_MAX == 300

\* Array.prototype.includes on an array of strings: strict equality
Includes(seq, v) == v.t = "string" /\ \E i \in 1..Len(seq) : seq[i] = v.s

\* a ValidationError {field, reason}; index/prop give the path items[index].prop
\* reason is a template literal in two places: its text is reason followed by arg
Err(f, r) == [field |-> [name |-> f, index |-> -1, prop |-> ""], reason |-> r, arg |-> ""]

ItemErr(i, p, r) == [field |-> [name |-> "items", index |-> i, prop |-> p], reason |-> r, arg |-> ""]

\* `must be one of: ${VALID_KEYS.join(", ")}` and the same for VALID_STATUSES
KEYS_REASON == "must be one of: TYRES, BRAKES, LIGHTS, OIL, COOLANT"

STATUS_REASON == "must be one of: OK, FAIL"

\* the forEach callback's pushes for the element at (0-based) index
ItemErrors(item, index) ==
  (IF ~Truthy(item.key) THEN <<ItemErr(index, "key", "is required")>>
   ELSE IF ~Includes(VALID_KEYS, item.key) THEN <<ItemErr(index, "key", KEYS_REASON)>>
   ELSE <<>>)
  \o
  (IF ~Truthy(item.status) THEN <<ItemErr(index, "status", "is required")>>
   ELSE IF ~Includes(VALID_STATUSES, item.status) THEN <<ItemErr(index, "status", STATUS_REASON)>>
   ELSE <<>>)

RECURSIVE AllItemErrors(_, _)
AllItemErrors(els, from) ==
  IF from > Len(els) THEN <<>>
  ELSE ItemErrors(els[from], from - 1) \o AllItemErrors(els, from + 1)

\* the Set `keys` after the forEach: the valid keys that occur
KeysSeen(els) ==
  {els[i].key.s : i \in {j \in 1..Len(els) : Truthy(els[j].key) /\ Includes(VALID_KEYS, els[j].key)}}

RECURSIVE MissingKeyErrors(_, _)
MissingKeyErrors(keys, from) ==
  IF from > Len(VALID_KEYS) THEN <<>>
  ELSE (IF VALID_KEYS[from] \notin keys
        THEN <<[field |-> [name |-> "items", index |-> -1, prop |-> ""],
                reason |-> "missing required key: ", arg |-> VALID_KEYS[from]]>>
        ELSE <<>>)
       \o MissingKeyErrors(keys, from + 1)

VehicleIdErrors(body) ==
  IF ~Truthy(body.vehicleId) THEN <<Err("vehicleId", "is required")>>
  ELSE IF TypeOf(body.vehicleId) # "string" THEN <<Err("vehicleId", "must be a string")>>
  ELSE IF ~vehicleExists(body.vehicleId.s) THEN <<Err("vehicleId", "vehicle does not exist")>>
  ELSE <<>>

OdometerErrors(body) ==
  IF Nullish(body.odometerKm) THEN <<Err("odometerKm", "is required")>>
  ELSE IF TypeOf(body.odometerKm) # "number" THEN <<Err("odometerKm", "must be a number")>>
  ELSE IF LeqZero(body.odometerKm) THEN <<Err("odometerKm", "must be > 0")>>
  ELSE <<>>

ItemsErrors_noSetChecks(body) ==
  IF ~Truthy(body.items) THEN <<Err("items", "is required")>>
  ELSE IF ~IsArray(body.items) THEN <<Err("items", "must be an array")>>
  ELSE (IF Len(body.items.els) # 5 THEN <<Err("items", "must contain exactly 5 items")>> ELSE <<>>)
       \o AllItemErrors(body.items.els, 1)

ItemsErrors(body) ==
  IF ~Truthy(body.items) THEN <<Err("items", "is required")>>
  ELSE IF ~IsArray(body.items) THEN <<Err("items", "must be an array")>>
  ELSE (IF Len(body.items.els) # 5 THEN <<Err("items", "must contain exactly 5 items")>> ELSE <<>>)
       \o AllItemErrors(body.items.els, 1)
       \o (IF Len(body.items.els) = 5 /\ Cardinality(KeysSeen(body.items.els)) # 5
           THEN <<Err("items", "must contain all 5 keys exactly once (no duplicates)")>>
           ELSE <<>>)
       \o MissingKeyErrors(KeysSeen(body.items.els), 1)

NoteErrors_offByOne(body) ==
  IF ~Nullish(body.note)
  THEN IF TypeOf(body.note) # "string" THEN <<Err("note", "must be a string")>>
       ELSE IF body.note.n >= NOTE_MAX THEN <<Err("note", "must be <= 300 characters")>>
       ELSE <<>>
  ELSE <<>>

NoteErrors_noLimit(body) ==
  IF ~Nullish(body.note)
  THEN IF TypeOf(body.note) # "string" THEN <<Err("note", "must be a string")>>
       ELSE <<>>
  ELSE <<>>

NoteErrors(body) ==
  IF ~Nullish(body.note)
  THEN IF TypeOf(body.note) # "string" THEN <<Err("note", "must be a string")>>
       ELSE IF body.note.n > NOTE_MAX THEN <<Err("note", "must be <= 300 characters")>>
       ELSE <<>>
  ELSE <<>>

\* body.vehicleId on a null body, item.key on a null element: a TypeError
ValidateThrows(body) ==
  \/ Nullish(body)
  \/ /\ Truthy(body.items)
     /\ IsArray(body.items)
     /\ \E i \in 1..Len(body.items.els) : Nullish(body.items.els[i])

\* validateCheckRequest: the errors it returns, or threw = TRUE and no result
validateCheckRequest(body) ==
  IF ValidateThrows(body)
  THEN [ran |-> TRUE, threw |-> TRUE, errors |-> <<>>]
  ELSE [ran |-> TRUE, threw |-> FALSE,
        errors |-> VehicleIdErrors(body) \o OdometerErrors(body)
                   \o ItemsErrors(body) \o NoteErrors(body)]

----------------------------------------------------------------------------
(* bounds of the model *)

\* uuidv4() is called at most this many times: ids are 1..MaxCreates
MaxCreates == 2

\* the clock runs from 0 to MaxClock
MaxClock == 1

----------------------------------------------------------------------------
(* database.ts: the record store.  fs.readFileSync / fs.writeFileSync may     *)
(* fail; a failed write leaves the file as it was.  JSON.stringify followed   *)
(* by JSON.parse gives back the same checks: they hold strings, finite        *)
(* numbers, booleans and null only, and an omitted note stays omitted.        *)

readChecks_ignoreFault(file, readFault) == file

\* readChecks: the parsed file, or [] when reading or parsing threw
readChecks(file, readFault) == IF readFault THEN <<>> ELSE file

writeChecks_swallow(file, checks, writeFault) ==
  [threw |-> FALSE, file |-> IF writeFault THEN file ELSE checks]

\* writeChecks: overwrites the file, or rethrows what fs.writeFileSync threw
writeChecks(file, checks, writeFault) ==
  IF writeFault THEN [threw |-> TRUE, file |-> file]
  ELSE [threw |-> FALSE, file |-> checks]

----------------------------------------------------------------------------
(* services/checkService.ts *)

\* what a call of the service did; created holds the returned Check, if any
NoCall ==
  [called |-> "none", threw |-> FALSE, reads |-> 0, writes |-> 0,
   readResult |-> <<>>, written |-> <<>>, created |-> <<>>,
   deleted |-> FALSE, found |-> <<>>, file |-> <<>>]

hasIssueOf_FAILED(items) ==
  \E i \in 1..Len(items.els) :
    items.els[i].status.t = "string" /\ items.els[i].status.s = "FAILED"

\* checkData.items.some((item) => item.status === "FAIL")
hasIssueOf(items) ==
  \E i \in 1..Len(items.els) :
    items.els[i].status.t = "string" /\ items.els[i].status.s = "FAIL"

NewCheck_fixedId(checkData, uuid, now) ==
  [id |-> 1,
   vehicleId |-> checkData.vehicleId,
   odometerKm |-> checkData.odometerKm,
   items |-> checkData.items,
   hasNote |-> checkData.note.t # "undefined",
   note |-> checkData.note,
   hasIssue |-> hasIssueOf(checkData.items),
   createdAt |-> now]

NewCheck_trustsClient(checkData, uuid, now) ==
  [id |-> uuid,
   vehicleId |-> checkData.vehicleId,
   odometerKm |-> checkData.odometerKm,
   items |-> checkData.items,
   hasNote |-> checkData.note.t # "undefined",
   note |-> checkData.note,
   hasIssue |-> IF "hasIssue" \in DOMAIN checkData THEN Truthy(checkData.hasIssue)
                ELSE hasIssueOf(checkData.items),
   createdAt |-> now]

\* the object literal newCheck; hasNote says whether it has a note property
NewCheck(checkData, uuid, now) ==
  [id |-> uuid,
   vehicleId |-> checkData.vehicleId,
   odometerKm |-> checkData.odometerKm,
   items |-> checkData.items,
   hasNote |-> checkData.note.t # "undefined",
   note |-> checkData.note,
   hasIssue |-> hasIssueOf(checkData.items),
   createdAt |-> now]

createCheck_overwrite(checkData, file, uuid, now, readFault, writeFault) ==
  LET newCheck == NewCheck(checkData, uuid, now)
      checks == readChecks(file, readFault)
      pushed == <<newCheck>>
      w == writeChecks(file, pushed, writeFault)
  IN [called |-> "createCheck", threw |-> w.threw, reads |-> 1, writes |-> 1,
      readResult |-> checks, written |-> pushed,
      created |-> IF w.threw THEN <<>> ELSE <<newCheck>>,
      deleted |-> FALSE, found |-> <<>>, file |-> w.file]

createCheck(checkData, file, uuid, now, readFault, writeFault) ==
  LET newCheck == NewCheck(checkData, uuid, now)
      checks == readChecks(file, readFault)
      pushed == Append(checks, newCheck)
      w == writeChecks(file, pushed, writeFault)
  IN [called |-> "createCheck", threw |-> w.threw, reads |-> 1, writes |-> 1,
      readResult |-> checks, written |-> pushed,
      created |-> IF w.threw THEN <<>> ELSE <<newCheck>>,
      deleted |-> FALSE, found |-> <<>>, file |-> w.file]

\* checks.sort((a, b) => time(b.createdAt) - time(a.createdAt)): a stable sort,
\* newest first; toISOString and new Date(...).getTime() keep the millisecond
RECURSIVE InsertNewestFirst(_, _)
InsertNewestFirst(sorted, c) ==
  IF sorted = <<>> THEN <<c>>
  ELSE IF c.createdAt > Head(sorted).createdAt THEN <<c>> \o sorted
  ELSE <<Head(sorted)>> \o InsertNewestFirst(Tail(sorted), c)

SortNewestFirst_storeOrder(checks) == checks

RECURSIVE SortNewestFirst(_)
SortNewestFirst(checks) ==
  IF checks = <<>> THEN <<>>
  ELSE InsertNewestFirst(SortNewestFirst(SubSeq(checks, 1, Len(checks) - 1)),
                         checks[Len(checks)])

getChecks_noIssueFilter(filters, file, readFault) ==
  LET checks == readChecks(file, readFault)
      byVehicle == SelectSeq(checks, LAMBDA c : c.vehicleId.t = "string"
                                               /\ c.vehicleId.s = filters.vehicleId)
  IN [called |-> "getChecks", threw |-> FALSE, reads |-> 1, writes |-> 0,
      readResult |-> checks, written |-> <<>>, created |-> <<>>,
      deleted |-> FALSE, found |-> SortNewestFirst(byVehicle), file |-> file]

getChecks_savesResult(filters, file, readFault) ==
  LET checks == readChecks(file, readFault)
      byVehicle == SelectSeq(checks, LAMBDA c : c.vehicleId.t = "string"
                                               /\ c.vehicleId.s = filters.vehicleId)
      byIssue == IF filters.hasIssue # "undefined"
                 THEN SelectSeq(byVehicle, LAMBDA c : c.hasIssue = (filters.hasIssue = "true"))
                 ELSE byVehicle
  IN [called |-> "getChecks", threw |-> FALSE, reads |-> 1, writes |-> 0,
      readResult |-> checks, written |-> <<>>, created |-> <<>>,
      deleted |-> FALSE, found |-> SortNewestFirst(byIssue), file |-> SortNewestFirst(byIssue)]

\* filters: vehicleId a string, hasIssue "undefined", "true" or "false"
getChecks(filters, file, readFault) ==
  LET checks == readChecks(file, readFault)
      byVehicle == SelectSeq(checks, LAMBDA c : c.vehicleId.t = "string"
                                               /\ c.vehicleId.s = filters.vehicleId)
      byIssue == IF filters.hasIssue # "undefined"
                 THEN SelectSeq(byVehicle, LAMBDA c : c.hasIssue = (filters.hasIssue = "true"))
                 ELSE byVehicle
  IN [called |-> "getChecks", threw |-> FALSE, reads |-> 1, writes |-> 0,
      readResult |-> checks, written |-> <<>>, created |-> <<>>,
      deleted |-> FALSE, found |-> SortNewestFirst(byIssue), file |-> file]

deleteCheck_noWrite(checkId, file, readFault, writeFault) ==
  LET checks == readChecks(file, readFault)
      filteredChecks == SelectSeq(checks, LAMBDA c : c.id # checkId)
  IN [called |-> "deleteCheck", threw |-> FALSE, reads |-> 1, writes |-> 0,
      readResult |-> checks, written |-> <<>>, created |-> <<>>,
      deleted |-> Len(filteredChecks) # Len(checks), found |-> <<>>, file |-> file]

deleteCheck_alwaysWrite(checkId, file, readFault, writeFault) ==
  LET checks == readChecks(file, readFault)
      filteredChecks == SelectSeq(checks, LAMBDA c : c.id # checkId)
      w == writeChecks(file, filteredChecks, writeFault)
  IN [called |-> "deleteCheck", threw |-> w.threw, reads |-> 1, writes |-> 1,
      readResult |-> checks, written |-> filteredChecks, created |-> <<>>,
      deleted |-> ~w.threw /\ Len(filteredChecks) # Len(checks), found |-> <<>>,
      file |-> w.file]

deleteCheck_writesUnfiltered(checkId, file, readFault, writeFault) ==
  LET checks == readChecks(file, readFault)
      filteredChecks == SelectSeq(checks, LAMBDA c : c.id # checkId)
  IN IF Len(filteredChecks) = Len(checks)
     THEN [called |-> "deleteCheck", threw |-> FALSE, reads |-> 1, writes |-> 0,
           readResult |-> checks, written |-> <<>>, created |-> <<>>,
           deleted |-> FALSE, found |-> <<>>, file |-> file]
     ELSE LET w == writeChecks(file, checks, writeFault)
          IN [called |-> "deleteCheck", threw |-> w.threw, reads |-> 1, writes |-> 1,
              readResult |-> checks, written |-> checks, created |-> <<>>,
              deleted |-> ~w.threw, found |-> <<>>, file |-> w.file]

deleteCheck(checkId, file, readFault, writeFault) ==
  LET checks == readChecks(file, readFault)
      filteredChecks == SelectSeq(checks, LAMBDA c : c.id # checkId)
  IN IF Len(filteredChecks) = Len(checks)
     THEN [called |-> "deleteCheck", threw |-> FALSE, reads |-> 1, writes |-> 0,
           readResult |-> checks, written |-> <<>>, created |-> <<>>,
           deleted |-> FALSE, found |-> <<>>, file |-> file]
     ELSE LET w == writeChecks(file, filteredChecks, writeFault)
          IN [called |-> "deleteCheck", threw |-> w.threw, reads |-> 1, writes |-> 1,
              readResult |-> checks, written |-> filteredChecks, created |-> <<>>,
              deleted |-> ~w.threw, found |-> <<>>, file |-> w.file]

----------------------------------------------------------------------------
(* controllers/checkController.ts and middleware/errorHandler.ts *)

\* an HTTP response; errKeys are the properties of its body's error object
Response(st, keys, c, m, d, ck, cks) ==
  [status |-> st, errKeys |-> keys, code |-> c, message |-> m, details |-> d,
   check |-> ck, checks |-> cks]

NoResponse == Response(0, {}, "", "", <<>>, <<>>, <<>>)

NotValidated == [ran |-> FALSE, threw |-> FALSE, errors |-> <<>>]

\* the message of the error fs.writeFileSync threw
FAULT_MESSAGE == "EACCES: permission denied, open 'checks.json'"

\* errorHandler: what Express answers when a handler throws
errorHandler(message) ==
  Response(500, {"code", "message", "details"}, "INTERNAL_SERVER_ERROR",
           IF message # "" THEN message ELSE "An unexpected error occurred",
           <<>>, <<>>, <<>>)

ValidationFailed_noDetails(errors) ==
  Response(400, {"code", "message", "details"}, "VALIDATION_ERROR",
           "We got Invalid Req Body", <<>>, <<>>, <<>>)

ValidationFailed(errors) ==
  Response(400, {"code", "message", "details"}, "VALIDATION_ERROR",
           "We got Invalid Req Body", errors, <<>>, <<>>)

\* the catch block of the POST handler
ServiceCrash == Response(500, {"message"}, "", "Internal Server Error", <<>>, <<>>, <<>>)

\* POST /checks (createCheck of the controller)
postChecks(body, file, uuid, now, readFault, writeFault) ==
  LET v == validateCheckRequest(body)
  IN IF v.threw
     THEN [val |-> v, svc |-> NoCall, response |-> ServiceCrash, file |-> file]
     ELSE IF Len(v.errors) > 0
     THEN [val |-> v, svc |-> NoCall, response |-> ValidationFailed(v.errors), file |-> file]
     ELSE LET s == createCheck(body, file, uuid, now, readFault, writeFault)
          IN [val |-> v, svc |-> s, file |-> s.file,
              response |-> IF s.threw THEN ServiceCrash
                           ELSE Response(201, {}, "", "", <<>>, s.created, <<>>)]

\* GET /checks (getChecks of the controller); a query parameter is a string or absent
getChecksHandler(vehicleId, hasIssue, file, readFault) ==
  IF ~Truthy(vehicleId) \/ TypeOf(vehicleId) # "string"
  THEN [val |-> NotValidated, svc |-> NoCall, file |-> file,
        response |-> Response(400, {"code", "message", "details"}, "VALIDATION_ERROR",
                              "Invalid request", <<Err("vehicleId", "is required")>>, <<>>, <<>>)]
  ELSE LET filters == [vehicleId |-> vehicleId.s,
                       hasIssue |-> IF hasIssue.t = "undefined" THEN "undefined"
                                    ELSE IF hasIssue.t = "string" /\ hasIssue.s = "true" THEN "true"
                                    ELSE "false"]
           s == getChecks(filters, file, readFault)
       IN [val |-> NotValidated, svc |-> s, file |-> s.file,
           response |-> Response(200, {}, "", "", <<>>, <<>>, s.found)]

\* DELETE /checks/:id (deleteCheck of the controller); the route gives a non-empty id.
\* Nothing catches what the service throws: Express hands it to errorHandler.
deleteChecksHandler(id, file, readFault, writeFault) ==
  LET s == deleteCheck(id, file, readFault, writeFault)
  IN [val |-> NotValidated, svc |-> s, file |-> s.file,
      response |-> IF s.threw THEN errorHandler(FAULT_MESSAGE)
                   ELSE IF ~s.deleted
                   THEN Response(404, {"code", "message", "details"}, "NOT_FOUND",
                                 "Check not found", <<>>, <<>>, <<>>)
                   ELSE Response(204, {}, "", "", <<>>, <<>>, <<>>)]

----------------------------------------------------------------------------
(* the requests the model sends *)

S(text) ==
  CASE text = "" -> Str("", 0)
    [] text \in {"OK"} -> Str(text, 2)
    [] text \in {"OIL"} -> Str(text, 3)
    [] text \in {"FAIL", "fine", "true", "NOPE"} -> Str(text, 4)
    [] text \in {"TYRES", "VH001", "VH002", "false", "15000"} -> Str(text, 5)
    [] text \in {"BRAKES", "LIGHTS", "ENGINE", "FAILED"} -> Str(text, 6)
    [] text \in {"COOLANT"} -> Str(text, 7)
    [] text = "a x 300" -> Str(text, 300)
    [] text = "a x 301" -> Str(text, 301)
    [] text = "a x 5000" -> Str(text, 5000)

\* the five keys in the order `order`, with the statuses `statuses`
ItemsOf(order, statuses) ==
  Arr([i \in 1..5 |-> Item(S(VALID_KEYS[order[i]]), S(statuses[i]))])

AllOk == ItemsOf(<<1, 2, 3, 4, 5>>, <<"OK", "OK", "OK", "OK", "OK">>)

BrakesFail == ItemsOf(<<1, 2, 3, 4, 5>>, <<"OK", "FAIL", "OK", "OK", "OK">>)

CoolantFailReversed == ItemsOf(<<5, 4, 3, 2, 1>>, <<"FAIL", "OK", "OK", "OK", "OK">>)

\* the array `items` with its element at position i replaced
With(items, i, item) == Arr([items.els EXCEPT ![i] = item])

ValidBodies ==
  { Body(S("VH001"), Num(15000), AllOk, Undef),
    Body(S("VH002"), Num(1), CoolantFailReversed, S("")),
    Body(S("VH001"), Num(15000), BrakesFail, Null),
    Body(S("VH002"), Num(15000), AllOk, S("fine")) }

InvalidBodies ==
  { Body(Undef, Undef, Undef, Undef),
    Body(S("NOPE"), Num(15000), AllOk, Undef),
    Body(S("VH001"), Num(0), AllOk, S("fine")),
    Body(S("VH001"), Num(15000), Arr(SubSeq(AllOk.els, 1, 2)), Undef),
    Body(S("VH001"), Num(15000), With(AllOk, 2, Item(S("TYRES"), S("FAIL"))), Undef),
    Body(S("VH001"), Num(15000), With(BrakesFail, 2, Item(S("BRAKES"), S("FAILED"))), Undef),
    Body(S("VH001"), Num(15000), With(AllOk, 4, NullItem), Undef),
    Body(S("VH001"), Num(15000), AllOk, S("a x 301")) }

\* valid bodies whose hasIssue, id and createdAt contradict what the server will set
ForgedBodies ==
  { BodyWithServerFields(Body(S("VH001"), Num(15000), BrakesFail, Null),
                         Bool(FALSE), Str("CHK001", 6), Str("2020-01-01T00:00:00.000Z", 24)),
    BodyWithServerFields(Body(S("VH001"), Num(15000), AllOk, Undef),
                         Bool(TRUE), Str("CHK001", 6), Str("2020-01-01T00:00:00.000Z", 24)) }

\* express.json() hands the handler a parsed JSON object
Bodies == ValidBodies \cup InvalidBodies \cup ForgedBodies

\* the ids a DELETE names: every id uuidv4() can give, and one it never gives
DeleteIds == 0..MaxCreates

QueryVehicleIds == {Undef, S("VH001"), S("VH002")}

QueryHasIssue == {Undef, S("true"), S("false")}

EmptyBody == Body(Undef, Undef, Undef, Undef)

Request(b, v, h, i, rf, wf) ==
  [body |-> b, vehicleId |-> v, hasIssue |-> h, id |-> i, readFault |-> rf, writeFault |-> wf]

----------------------------------------------------------------------------
(* the server: one handler runs at a time, from its first line to its last *)

\* a storage fault is the failure of a file-system call that is made
FaultsInCalls(s, readFault, writeFault) ==
  /\ readFault => s.reads > 0
  /\ writeFault => s.writes > 0

\* the executions of createCheck that can be in progress at once
Workers == {1, 2}

\* a worker that is not inside createCheck
IdleWorker == [pc |-> "idle", newCheck |-> <<>>, checks |-> <<>>, overlapped |-> {}, threw |-> FALSE]

\* CheckHistory as mounted: no vehicle selected, filter "all", no checks, nothing fetched
HistoryMounted ==
  [selectedVehicle |-> "", hasIssueFilter |-> "all", refreshTrigger |-> 0,
   checks |-> <<>>, lastFetchedParams |-> <<>>, effects |-> <<>>]

ElsewhereInit ==
  /\ running = [w \in Workers |-> IdleWorker]
  /\ history = HistoryMounted
  /\ toasts = <<>>
  /\ toastIdCounter = 0
  /\ toastCall = [fn |-> "none", id |-> 0]

Init ==
  /\ ElsewhereInit
  /\ checksFile = <<>>
  /\ nextId = 0
  /\ clock = 0
  /\ op = "none"
  /\ request = Request(EmptyBody, Undef, Undef, 0, FALSE, FALSE)
  /\ val = NotValidated
  /\ svc = NoCall
  /\ response = NoResponse

\* the rest of the world lets time pass
Tick ==
  /\ clock < MaxClock
  /\ clock' = clock + 1
  /\ UNCHANGED <<checksFile, nextId, op, request, val, svc, response>>
  /\ UNCHANGED elsewhere

Post ==
  \E body \in Bodies, readFault \in BOOLEAN, writeFault \in BOOLEAN :
    LET r == postChecks(body, checksFile, nextId + 1, clock, readFault, writeFault)
    IN /\ r.svc.called = "createCheck" => nextId < MaxCreates
       /\ FaultsInCalls(r.svc, readFault, writeFault)
       /\ op' = "POST"
       /\ request' = Request(body, Undef, Undef, 0, readFault, writeFault)
       /\ val' = r.val
       /\ svc' = r.svc
       /\ response' = r.response
       /\ checksFile' = r.file
       /\ nextId' = IF r.svc.called = "createCheck" THEN nextId + 1 ELSE nextId
       /\ UNCHANGED <<clock, elsewhere>>

Get ==
  \E vehicleId \in QueryVehicleIds, hasIssue \in QueryHasIssue, readFault \in BOOLEAN :
    LET r == getChecksHandler(vehicleId, hasIssue, checksFile, readFault)
    IN /\ FaultsInCalls(r.svc, readFault, FALSE)
       /\ op' = "GET"
       /\ request' = Request(EmptyBody, vehicleId, hasIssue, 0, readFault, FALSE)
       /\ val' = r.val
       /\ svc' = r.svc
       /\ response' = r.response
       /\ checksFile' = r.file
       /\ UNCHANGED <<nextId, clock, elsewhere>>

Delete ==
  \E id \in DeleteIds, readFault \in BOOLEAN, writeFault \in BOOLEAN :
    LET r == deleteChecksHandler(id, checksFile, readFault, writeFault)
    IN /\ FaultsInCalls(r.svc, readFault, writeFault)
       /\ op' = "DELETE"
       /\ request' = Request(EmptyBody, Undef, Undef, id, readFault, writeFault)
       /\ val' = r.val
       /\ svc' = r.svc
       /\ response' = r.response
       /\ checksFile' = r.file
       /\ UNCHANGED <<nextId, clock, elsewhere>>

Next == Tick \/ Post \/ Get \/ Delete

Spec == Init /\ [][Next]_vars

----------------------------------------------------------------------------
(* the validator alone, on a wide set of payloads *)

PayloadVehicleIds == {Undef, Null, S(""), Num(0), Num(7), S("VH001"), S("NOPE")}

PayloadOdometers == {Undef, Null, S("15000"), Num(0), Num(-5), Num(15000), NaN}

PayloadNotes ==
  {Undef, Null, S(""), S("fine"), S("a x 300"), S("a x 301"), S("a x 5000"), Num(123)}

Orders == {<<1, 2, 3, 4, 5>>, <<4, 1, 5, 3, 2>>}

Statuses == {"OK", "FAIL"}

\* every assignment of statuses to the five keys, in each order
GoodItems == {ItemsOf(o, st) : o \in Orders, st \in [1..5 -> Statuses]}

BaseItems == {AllOk, BrakesFail, CoolantFailReversed}

BadItems ==
  { NullItem, NumberItem,
    Item(S("TYRES"), S("OK")), Item(S("COOLANT"), S("FAIL")),
    Item(S("ENGINE"), S("OK")), Item(Undef, S("OK")), Item(S(""), S("FAIL")), Item(Num(7), S("OK")),
    Item(S("OIL"), S("FAILED")), Item(S("OIL"), Undef), Item(S("LIGHTS"), Num(7)) }

\* a good array with one element replaced, cut short, or one element longer
DefectiveItems ==
  {With(b, i, x) : b \in BaseItems, i \in 1..5, x \in BadItems}
  \cup {Arr(SubSeq(b.els, 1, k)) : b \in BaseItems, k \in 0..4}
  \cup {Arr(Append(b.els, x)) : b \in BaseItems, x \in {Item(S("OIL"), S("OK")), Item(S("ENGINE"), S("OK"))}}

PayloadItems ==
  {Undef, Null, S("fine"), Num(0), Num(7), PlainObject}
  \cup GoodItems \cup DefectiveItems

Payloads ==
  {Body(v, o, i, nt) : v \in PayloadVehicleIds, o \in PayloadOdometers,
                       i \in PayloadItems, nt \in PayloadNotes}
  \cup {NullBody}

InitV ==
  /\ ElsewhereInit
  /\ checksFile = <<>>
  /\ nextId = 0
  /\ clock = 0
  /\ op = "none"
  /\ request \in {Request(b, Undef, Undef, 0, FALSE, FALSE) : b \in Payloads}
  /\ val = NotValidated
  /\ svc = NoCall
  /\ response = NoResponse

\* a direct call of validateCheckRequest(body), as the unit tests make it
Validate ==
  /\ op = "none"
  /\ op' = "VALIDATE"
  /\ val' = validateCheckRequest(request.body)
  /\ UNCHANGED <<checksFile, nextId, clock, request, svc, response, elsewhere>>

NextV == Validate

SpecV == InitV /\ [][NextV]_vars

----------------------------------------------------------------------------
(* what the claims speak of, stated without the operators of the code *)

\* every check the last handler stored or returned
PersistedChecks == {checksFile[i] : i \in 1..Len(checksFile)}

CreatedChecks == {svc.created[i] : i \in 1..Len(svc.created)}

\* the statuses of a check's items, as a set of texts
StatusTexts(c) == {c.items.els[i].status.s : i \in 1..Len(c.items.els)}

FiveKeys == {"TYRES", "BRAKES", "LIGHTS", "OIL", "COOLANT"}

\* a step of a handler (every step but Tick leaves the clock alone)
HandlerStep == clock' = clock

\* the step is a POST whose body passed validation: it called uuidv4()
CreateStep == nextId' = nextId + 1

----------------------------------------------------------------------------
(* C1: every persisted check, and the check createCheck returns, has       *)
(* hasIssue = TRUE exactly when one of its items has the status FAIL.      *)

\* C1: stored and returned checks have hasIssue exactly when an item is FAIL
C1_HasIssueIffAnyFail ==
  \A c \in PersistedChecks \cup CreatedChecks :
    /\ c.hasIssue <=> "FAIL" \in StatusTexts(c)
    /\ StatusTexts(c) = {"OK"} => ~c.hasIssue

C1_Witness ==
  /\ op = "POST" /\ response.status = 201
  /\ \E c \in CreatedChecks : c.hasIssue /\ "FAIL" \in StatusTexts(c)
  /\ \E c \in PersistedChecks : ~c.hasIssue /\ StatusTexts(c) = {"OK"}

----------------------------------------------------------------------------
(* C2: validateCheckRequest never throws, whatever the payload.            *)

\* C2: a run of validateCheckRequest ends with a result, never with an exception
C2_ValidateNeverThrows == val.ran => ~val.threw

----------------------------------------------------------------------------
(* C3: every check persisted through POST /checks has exactly 5 items,     *)
(* one for each of the five keys, each with status OK or FAIL.             *)

\* C3: every stored check has 5 items, one per key, each OK or FAIL
C3_FiveItemsOnePerKey ==
  \A c \in PersistedChecks :
    /\ c.items.t = "array"
    /\ Len(c.items.els) = 5
    /\ \A i \in 1..5 : c.items.els[i].t = "object"
                       /\ c.items.els[i].key.t = "string"
                       /\ c.items.els[i].status.t = "string"
    /\ \A k \in FiveKeys : Cardinality({i \in 1..5 : c.items.els[i].key.s = k}) = 1
    /\ StatusTexts(c) \subseteq {"OK", "FAIL"}

C3_Witness ==
  /\ Len(checksFile) = 2
  /\ checksFile[1].items.els[1].key.s # checksFile[2].items.els[1].key.s
  /\ op = "POST" /\ response.status = 400

----------------------------------------------------------------------------
(* C4: validateCheckRequest returns the empty list exactly for the         *)
(* well-formed payloads.  As claimed, a note must be absent or a string    *)
(* of at most 300 characters and odometerKm a number > 0; the code also    *)
(* accepts note: null, and the odometerKm NaN (which is not <= 0).         *)

VehicleAndItemsWellFormed(b) ==
  /\ b.t = "object"
  /\ b.vehicleId.t = "string" /\ b.vehicleId.s \in Vehicles
  /\ b.items.t = "array"
  /\ Len(b.items.els) = 5
  /\ \A i \in 1..Len(b.items.els) :
       /\ b.items.els[i].t = "object"
       /\ b.items.els[i].key.t = "string" /\ b.items.els[i].key.s \in FiveKeys
       /\ b.items.els[i].status.t = "string" /\ b.items.els[i].status.s \in {"OK", "FAIL"}
  /\ \A i, j \in 1..Len(b.items.els) :
       i # j => b.items.els[i].key.s # b.items.els[j].key.s

\* a number > 0
OdometerAsClaimed(b) == b.odometerKm.t = "number" /\ b.odometerKm.s # "NaN" /\ b.odometerKm.n > 0

\* a number that is not <= 0: a positive number, or NaN
OdometerAsCoded(b) == b.odometerKm.t = "number" /\ (b.odometerKm.s = "NaN" \/ b.odometerKm.n > 0)

NoteAsClaimed(b) == b.note.t = "undefined" \/ (b.note.t = "string" /\ b.note.n <= 300)

NoteAsCoded(b) == b.note.t \in {"undefined", "null"} \/ (b.note.t = "string" /\ b.note.n <= 300)

ReturnedEmpty == ~val.threw /\ val.errors = <<>>

----------------------------------------------------------------------------
(* C5: a created check has no note property when no note was supplied,     *)
(* and no created check carries note: null or note: "".                    *)

\* C5: no note property when none was supplied; never note: null or note: ""
C5_NoteOmittedNeverNullOrEmpty ==
  /\ \A c \in CreatedChecks : request.body.note.t = "undefined" => ~c.hasNote
  /\ \A c \in CreatedChecks \cup PersistedChecks :
       c.hasNote => c.note.t # "null" /\ ~(c.note.t = "string" /\ c.note.n = 0)

----------------------------------------------------------------------------
(* C6: when validateCheckRequest returns errors for a POST /checks body,   *)
(* the answer is 400 VALIDATION_ERROR with those errors as details, the    *)
(* service is not called and the record store is not written.              *)

\* C6: a POST whose body has validation errors answers 400 with them and writes nothing
C6_InvalidBodyRejectedWithoutWrite ==
  [][(HandlerStep /\ op' = "POST" /\ val'.ran /\ ~val'.threw /\ Len(val'.errors) > 0) =>
       /\ response'.status = 400
       /\ response'.code = "VALIDATION_ERROR"
       /\ response'.errKeys = {"code", "message", "details"}
       /\ response'.details = val'.errors
       /\ svc'.called = "none"
       /\ svc'.writes = 0
       /\ checksFile' = checksFile]_vars

C6_Witness ==
  /\ op = "POST" /\ response.status = 400
  /\ request.body.vehicleId = S("NOPE")
  /\ response.details = <<Err("vehicleId", "vehicle does not exist")>>
  /\ Len(checksFile) > 0

----------------------------------------------------------------------------
(* C7: createCheck reads the collection once and writes once, and what it  *)
(* writes is what it read with the new record appended at the end; what    *)
(* it read is the stored collection unless the read failed.                *)

----------------------------------------------------------------------------
(* C8: as claimed, a failed read of the store makes createCheck,           *)
(* getChecks and deleteCheck throw.  In the code readChecks catches the    *)
(* fault and returns [], and the three go on as on an empty store.         *)

\* C8 as claimed: a service call whose read of the store failed throws
C8_ReadFaultPropagates_Original ==
  (svc.called # "none" /\ request.readFault) => svc.threw

\* C8 amended: a service call whose read of the store failed goes on as on an empty store
C8_ReadFaultReadsAsEmpty ==
  (svc.called # "none" /\ request.readFault) =>
    /\ svc.readResult = <<>>
    /\ svc.called = "getChecks" =>
         ~svc.threw /\ svc.found = <<>> /\ response.status = 200 /\ response.checks = <<>>
    /\ svc.called = "deleteCheck" =>
         ~svc.threw /\ ~svc.deleted /\ svc.writes = 0 /\ response.status = 404
    /\ svc.called = "createCheck" =>
         /\ Len(svc.written) = 1
         /\ svc.threw <=> request.writeFault
         /\ ~svc.threw => checksFile = svc.written /\ response.status = 201

C8_Witness ==
  /\ op = "DELETE" /\ request.readFault
  /\ \E c \in PersistedChecks : c.id = request.id
  /\ response.status = 404

----------------------------------------------------------------------------
(* C9: when the store write fails during createCheck the fault reaches     *)
(* the caller: no Check is returned, POST /checks does not answer 201,     *)
(* the persisted collection is unchanged and the write is not retried.     *)

\* C9: a createCheck whose write failed throws, returns no check, answers 500, leaves the file, writes once
C9_WriteFaultPropagates ==
  [][(CreateStep /\ request'.writeFault) =>
       /\ svc'.threw
       /\ svc'.created = <<>>
       /\ response'.status = 500
       /\ response'.check = <<>>
       /\ svc'.writes = 1
       /\ checksFile' = checksFile]_vars

C9_Witness ==
  /\ op = "POST" /\ request.writeFault /\ ~request.readFault
  /\ response.status = 500
  /\ Len(checksFile) = 1

----------------------------------------------------------------------------
(* C10: as claimed, deleteCheck(id) returns true exactly when the store    *)
(* held a record with that id, and then the store holds the other records  *)
(* in their order, written by one write.  In the code it returns true      *)
(* exactly when the collection readChecks returned held the id: after a    *)
(* failed read it returns false for an id the store holds.                 *)

\* the checks of a collection whose id is not id, in their order
Without(checks, id) == SelectSeq(checks, LAMBDA c : c.id # id)

Holds(checks, id) == \E i \in 1..Len(checks) : checks[i].id = id

DeleteReturned == HandlerStep /\ op' = "DELETE" /\ ~svc'.threw

----------------------------------------------------------------------------
(* C11: deleteCheck(id) for an id no stored record has returns false and   *)
(* writes nothing, and DELETE /checks/:id answers 404 NOT_FOUND.           *)

\* a DELETE step
DeleteStep == HandlerStep /\ op' = "DELETE" /\ svc'.called = "deleteCheck"

\* C11: deleting an id the store does not hold returns false, writes nothing, answers 404 NOT_FOUND
C11_DeleteUnknownIdIsNoOp ==
  [][(DeleteStep /\ ~Holds(checksFile, request'.id)) =>
       /\ ~svc'.threw
       /\ ~svc'.deleted
       /\ svc'.writes = 0
       /\ checksFile' = checksFile
       /\ response'.status = 404
       /\ response'.errKeys = {"code", "message", "details"}
       /\ response'.code = "NOT_FOUND"
       /\ response'.message = "Check not found"
       /\ response'.details = <<>>]_vars

C11_Witness ==
  /\ op = "DELETE" /\ response.status = 404 /\ ~request.readFault
  /\ Len(checksFile) = 2
  /\ ~Holds(checksFile, request.id)

----------------------------------------------------------------------------
(* C12: once deleteCheck(id) has returned true, the store never holds a    *)
(* check with that id again and no getChecks call returns one; a further   *)
(* deleteCheck(id) therefore finds nothing: it returns false and does not  *)
(* write.                                                                  *)

\* the last handler was a deleteCheck(id) that returned true
DeleteReturnedTrue(id) == op = "DELETE" /\ request.id = id /\ svc.deleted

\* neither the store nor the answer of the last GET holds a check with that id
Gone(id) == ~Holds(checksFile, id) /\ ~Holds(response.checks, id) /\ ~Holds(svc.found, id)

\* C12: after deleteCheck(id) returned true no getChecks returns that id, and deleting it again returns false without a write
C12_DeletedStaysDeleted ==
  /\ \A id \in DeleteIds : [](DeleteReturnedTrue(id) => []Gone(id))
  /\ [][(DeleteStep /\ ~Holds(checksFile, request'.id)) =>
          ~svc'.deleted /\ svc'.writes = 0]_vars

C12_Witness ==
  /\ DeleteReturnedTrue(1)
  /\ Len(checksFile) = 1
  /\ checksFile[1].vehicleId = S("VH001")

----------------------------------------------------------------------------
(* C13: as claimed, getChecks({vehicleId: V}) returns exactly the stored   *)
(* checks of vehicle V, and with hasIssue true / false exactly those of    *)
(* them with that hasIssue, for every store content.  In the code this     *)
(* holds of the collection readChecks returned: when the store cannot be   *)
(* read, getChecks returns [] whatever the store holds.                    *)

\* the checks of a sequence, as a set
SetOf(checks) == {checks[i] : i \in 1..Len(checks)}

\* the checks of vehicle v in a collection; h is Undef, "true" or "false" as in the query
Matching(checks, v, h) ==
  {c \in SetOf(checks) :
     /\ c.vehicleId = v
     /\ h.t # "undefined" => (c.hasIssue <=> h.s = "true")}

\* the last handler was a GET that called getChecks
GetReturned == op = "GET" /\ svc.called = "getChecks"

\* the answers getChecks gives for vehicle v on what the store holds now
Answer(v, h) == getChecks([vehicleId |-> v, hasIssue |-> h], checksFile, FALSE).found

\* with and without issue: disjoint, and together the unfiltered answer
Partition ==
  \A v \in Vehicles :
    /\ SetOf(Answer(v, "true")) \cap SetOf(Answer(v, "false")) = {}
    /\ SetOf(Answer(v, "true")) \cup SetOf(Answer(v, "false")) = SetOf(Answer(v, "undefined"))
    /\ Len(Answer(v, "true")) + Len(Answer(v, "false")) = Len(Answer(v, "undefined"))

\* C13 as claimed: getChecks returns exactly the stored checks of the vehicle that match the hasIssue filter
C13_FilterExact_Original ==
  GetReturned =>
    /\ SetOf(svc.found) = Matching(checksFile, request.vehicleId, request.hasIssue)
    /\ Len(svc.found) = Cardinality(SetOf(svc.found))
    /\ response.checks = svc.found

\* C13 amended: getChecks returns exactly the checks readChecks returned that match; a failed read returns none
C13_FilterExactOnWhatWasRead ==
  /\ GetReturned =>
       /\ svc.readResult = IF request.readFault THEN <<>> ELSE checksFile
       /\ SetOf(svc.found) = Matching(svc.readResult, request.vehicleId, request.hasIssue)
       /\ Len(svc.found) = Cardinality(SetOf(svc.found))
       /\ response.checks = svc.found
  /\ Partition

C13_Witness ==
  /\ GetReturned /\ ~request.readFault
  /\ request.vehicleId = S("VH001") /\ request.hasIssue = S("true")
  /\ Len(svc.found) = 1
  /\ \E c \in SetOf(checksFile) : c.vehicleId = S("VH001") /\ ~c.hasIssue

----------------------------------------------------------------------------
(* C14: in every sequence getChecks returns, a check placed before another *)
(* has a createdAt at least as late (newest first).                        *)

NewestFirst(checks) ==
  \A i, j \in 1..Len(checks) : i < j => checks[i].createdAt >= checks[j].createdAt

\* C14: what getChecks returns, and what GET /checks answers, is ordered newest first
C14_ReturnedNewestFirst ==
  GetReturned => NewestFirst(svc.found) /\ NewestFirst(response.checks)

\* the store holds the older check first, the answer the newer one first
C14_Witness ==
  /\ GetReturned
  /\ Len(svc.found) = 2
  /\ svc.found[1].createdAt > svc.found[2].createdAt
  /\ checksFile[1].createdAt < checksFile[2].createdAt

----------------------------------------------------------------------------
(* C15: getChecks writes nothing and leaves the store as it was; as        *)
(* claimed, two getChecks calls with the same filters and no create or     *)
(* delete between them return the same sequence.  In the code they do      *)
(* when both reads succeed: a call whose read fails returns [].            *)

\* a GET step that calls getChecks
GetStep == HandlerStep /\ op' = "GET" /\ svc'.called = "getChecks"

\* a GET step that follows a GET with the same filters, nothing but time passing between them
RepeatedGet ==
  /\ GetReturned
  /\ GetStep
  /\ request'.vehicleId = request.vehicleId
  /\ request'.hasIssue = request.hasIssue

----------------------------------------------------------------------------
(* C16: no two persisted checks share an id: createCheck gives the new     *)
(* check an id that no check in the store has.  uuidv4() draws a version-4 *)
(* UUID; the model takes its values to be pairwise different.              *)

UniqueIds(checks) ==
  \A i, j \in 1..Len(checks) : i # j => checks[i].id # checks[j].id

\* C16: no two stored checks share an id, and a created check's id is new to the store
C16_IdsUnique ==
  /\ [](UniqueIds(checksFile))
  /\ [][CreateStep =>
          /\ ~Holds(checksFile, svc'.written[Len(svc'.written)].id)
          /\ UniqueIds(svc'.written)]_vars

C16_Witness ==
  /\ op = "POST" /\ response.status = 201 /\ ~request.readFault
  /\ Len(checksFile) = 2
  /\ checksFile[1].id # checksFile[2].id
  /\ checksFile[1].vehicleId = checksFile[2].vehicleId
  /\ checksFile[1].createdAt = checksFile[2].createdAt

----------------------------------------------------------------------------
(* C17: a persisted check never changes: as long as a check with its id is *)
(* in the store, it is the same record; a check enters the store only by   *)
(* the createCheck that made it and leaves it only by a deleteCheck of its *)
(* id.                                                                     *)

\* C17: a stored check stays as it is until a deleteCheck of its id removes it; only createCheck adds one
C17_ChecksImmutable ==
  [][/\ \A c \in SetOf(checksFile), d \in SetOf(checksFile') : c.id = d.id => c = d
     /\ \A c \in SetOf(checksFile) :
          \/ c \in SetOf(checksFile')
          \/ DeleteStep /\ request'.id = c.id /\ svc'.deleted
     /\ \A d \in SetOf(checksFile') :
          \/ d \in SetOf(checksFile)
          \/ CreateStep /\ svc'.created = <<d>> /\ ~Holds(checksFile, d.id)]_vars

----------------------------------------------------------------------------
(* C18: hasIssue, id and createdAt of a created check never come from the  *)
(* request: a body that carries its own hasIssue, id or createdAt gives    *)
(* the record the same body without them gives, with hasIssue derived      *)
(* from items.                                                             *)

ServerFields == {"hasIssue", "id", "createdAt"}

\* the body without the properties of ServerFields
WithoutServerFields(b) == Body(b.vehicleId, b.odometerKm, b.items, b.note)

\* the request body carries at least one of the server's properties
Forged(b) == ServerFields \cap DOMAIN b # {}

\* C18: a created check's id and createdAt are the server's, its hasIssue is derived from items, whatever the body carries
C18_ServerFieldsNotFromClient ==
  [][(CreateStep /\ ~svc'.threw) =>
       LET c == svc'.created[1]
           plain == createCheck(WithoutServerFields(request'.body), checksFile, nextId',
                                clock, request'.readFault, request'.writeFault)
       IN /\ c.id = nextId'
          /\ c.createdAt = clock
          /\ c.hasIssue <=> "FAIL" \in StatusTexts(c)
          /\ svc'.created = plain.created
          /\ checksFile' = plain.file
          /\ DOMAIN c = {"id", "vehicleId", "odometerKm", "items", "hasNote", "note",
                         "hasIssue", "createdAt"}]_vars

\* both directions: the client said no issue and there is one, and the reverse
C18_Witness ==
  /\ op = "POST" /\ response.status = 201
  /\ Forged(request.body)
  /\ Truthy(request.body.hasIssue) /\ ~svc.created[1].hasIssue
  /\ Len(checksFile) = 2
  /\ checksFile[1].hasIssue

----------------------------------------------------------------------------
(* C19: every check persisted through POST /checks has a vehicleId for     *)
(* which vehicleExists returned true in the same request; the lookup and   *)
(* the store write happen in one run of the handler, which nothing         *)
(* interrupts.                                                             *)

\* C19: a stored check's vehicle exists, and the create that stored it validated that vehicleId in the same handler run
C19_VehicleExistedAtCreation ==
  /\ [](\A c \in PersistedChecks : c.vehicleId.t = "string" /\ c.vehicleId.s \in Vehicles)
  /\ [][CreateStep =>
          /\ op' = "POST"
          /\ val'.ran /\ ~val'.threw /\ val'.errors = <<>>
          /\ request'.body.vehicleId.t = "string"
          /\ request'.body.vehicleId.s \in Vehicles
          /\ svc'.written[Len(svc'.written)].vehicleId = request'.body.vehicleId
          /\ svc'.writes = 1]_vars

\* both vehicles have a stored check, and a body naming an unknown vehicle was just refused
C19_Witness ==
  /\ Len(checksFile) = 2
  /\ checksFile[1].vehicleId.s # checksFile[2].vehicleId.s
  /\ op = "POST" /\ response.status = 400
  /\ request.body.vehicleId = S("NOPE")
  /\ svc.called = "none"

----------------------------------------------------------------------------
(* C20: a note of exactly 300 characters draws no note error; a note of    *)
(* 301 or more characters draws {field: "note", reason: "must be <= 300    *)
(* characters"}.                                                           *)

\* the errors validateCheckRequest returned for the field note
NoteErrorsReturned ==
  SelectSeq(val.errors, LAMBDA e : e.field.name = "note")

\* C20: a 300-character note gives no note error, a longer one gives "must be <= 300 characters"
C20_NoteLengthBoundary ==
  (op = "VALIDATE" /\ ~val.threw /\ request.body.note.t = "string") =>
    /\ request.body.note.n = 300 => NoteErrorsReturned = <<>>
    /\ request.body.note.n >= 301 =>
         /\ Len(NoteErrorsReturned) = 1
         /\ NoteErrorsReturned[1].field = [name |-> "note", index |-> -1, prop |-> ""]
         /\ NoteErrorsReturned[1].reason = "must be <= 300 characters"
         /\ NoteErrorsReturned[1].arg = ""

C20_Witness ==
  /\ op = "VALIDATE"
  /\ request.body.note.t = "string" /\ request.body.note.n = 300
  /\ ReturnedEmpty

----------------------------------------------------------------------------
(* C21: the empty payload {} draws one "is required" error for each of     *)
(* vehicleId, odometerKm and items, and the errors reported for one        *)
(* top-level field do not depend on the other fields.                      *)

TopLevelFields == {"vehicleId", "odometerKm", "items", "note"}

\* the errors of a validation result that concern the top-level field f
ErrorsFor(v, f) == SelectSeq(v.errors, LAMBDA e : e.field.name = f)

\* the payload that has the field f of b and no other field
Only(b, f) ==
  Body(IF f = "vehicleId" THEN b.vehicleId ELSE Undef,
       IF f = "odometerKm" THEN b.odometerKm ELSE Undef,
       IF f = "items" THEN b.items ELSE Undef,
       IF f = "note" THEN b.note ELSE Undef)

\* the errors the field f of b draws when nothing else is in the payload
ErrorsAlone(b, f) ==
  LET v == validateCheckRequest(Only(b, f))
  IN IF v.threw THEN <<>> ELSE ErrorsFor(v, f)

\* C21: {} draws the three "is required" errors, and a field's errors are reported whatever the other fields hold
C21_FieldsReportedIndependently ==
  (op = "VALIDATE" /\ request.body.t = "object") =>
    /\ request.body = EmptyBody =>
         /\ ~val.threw
         /\ val.errors = <<Err("vehicleId", "is required"), Err("odometerKm", "is required"),
                           Err("items", "is required")>>
    /\ \A f \in TopLevelFields :
         ErrorsFor(val, f) = ErrorsAlone(request.body, f)

----------------------------------------------------------------------------
(* C22: every error response (400, 404, 500) has the body                  *)
(* {error: {code, message, details}} with all three properties.            *)

\* C22: a response with status 400 or above carries an error object with code, message and details
C22_ErrorBodyHasThreeFields ==
  response.status >= 400 => response.errKeys = {"code", "message", "details"}

----------------------------------------------------------------------------
(* C23: a storage fault that reaches the handler of POST /checks or        *)
(* DELETE /checks/:id is answered with status 500 and a body that does     *)
(* not carry the message of the underlying error.                          *)

\* C23: a storage fault in POST or DELETE answers 500 without the message of the error that was thrown
C23_FaultAnsweredWithoutDetail ==
  (op \in {"POST", "DELETE"} /\ svc.threw) =>
    /\ response.status = 500
    /\ response.message # FAULT_MESSAGE

----------------------------------------------------------------------------
(* createCheck statement by statement, for executions that overlap: two    *)
(* server processes (or any two callers) working on the same checks.json.  *)
(* Each builds its record, reads the collection, then pushes and writes.   *)

pushAndWrite_rereads(checks, newCheck, file, writeFault) ==
  writeChecks(file, Append(file, newCheck), writeFault)

\* checks.push(newCheck); writeChecks(checks): the collection read earlier is written back
pushAndWrite(checks, newCheck, file, writeFault) ==
  writeChecks(file, Append(checks, newCheck), writeFault)

\* const hasIssue = ...; const newCheck = {id: uuidv4(), ..., createdAt: new Date()...}
Build(w) ==
  \E body \in ValidBodies :
    /\ running[w].pc \in {"idle", "done"}
    /\ nextId < MaxCreates
    /\ nextId' = nextId + 1
    /\ running' = [running EXCEPT ![w] =
                     [pc |-> "built", newCheck |-> <<NewCheck(body, nextId + 1, clock)>>,
                      checks |-> <<>>, overlapped |-> {}, threw |-> FALSE]]
    /\ UNCHANGED <<checksFile, clock, op, request, val, svc, response,
                   history, toasts, toastIdCounter, toastCall>>

\* const checks = readChecks()
Read(w) ==
  \E readFault \in BOOLEAN :
    /\ running[w].pc = "built"
    /\ running' = [running EXCEPT ![w].pc = "read",
                                  ![w].checks = readChecks(checksFile, readFault)]
    /\ UNCHANGED <<checksFile, nextId, clock, op, request, val, svc, response,
                   history, toasts, toastIdCounter, toastCall>>

\* checks.push(newCheck); writeChecks(checks); return newCheck.
\* overlapped: the ids written by others between this worker's read and its write
Write(w) ==
  \E writeFault \in BOOLEAN :
    LET r == pushAndWrite(running[w].checks, running[w].newCheck[1], checksFile, writeFault)
    IN /\ running[w].pc = "read"
       /\ checksFile' = r.file
       /\ running' = [v \in Workers |->
                        IF v = w THEN [running[w] EXCEPT !.pc = "done", !.threw = r.threw]
                        ELSE IF running[v].pc = "read" /\ ~r.threw
                        THEN [running[v] EXCEPT !.overlapped = @ \cup {running[w].newCheck[1].id}]
                        ELSE running[v]]
       /\ UNCHANGED <<nextId, clock, op, request, val, svc, response,
                      history, toasts, toastIdCounter, toastCall>>

NextRace ==
  \/ Tick
  \/ \E w \in Workers : Build(w)
  \/ \E w \in Workers : Read(w)
  \/ \E w \in Workers : Write(w)

SpecRace == Init /\ [][NextRace]_vars

----------------------------------------------------------------------------
(* C24: when two createCheck executions have both read the collection      *)
(* before either writes it, the store ends up without one of the two new   *)
(* records: nothing in createCheck notices that the store has changed.     *)

\* worker w completes its write in this step
WriteReturns(w) == running[w].pc = "read" /\ running'[w].pc = "done" /\ ~running'[w].threw

\* C24: a write that follows another execution's write, both having read before, drops the other's record
C24_OverlappingCreatesLoseOne ==
  [][\A w \in Workers :
       (WriteReturns(w) /\ running[w].overlapped # {}) =>
         /\ \A id \in running[w].overlapped : ~Holds(checksFile', id)
         /\ Holds(checksFile', running[w].newCheck[1].id)
         /\ checksFile' = Append(running[w].checks, running[w].newCheck[1])]_vars

\* both executions have returned their check, both had read an empty collection, one record is stored
C24_Witness ==
  /\ \A w \in Workers : running[w].pc = "done" /\ ~running[w].threw /\ running[w].checks = <<>>
  /\ running[2].overlapped = {running[1].newCheck[1].id}
  /\ checksFile = running[2].newCheck
  /\ nextId = 2

----------------------------------------------------------------------------
(* C25: a vehicleId that is present but not a string draws "must be a      *)
(* string" and not "is required"; a present items that is not an array     *)
(* draws "must be an array"; "is required" is reported for these fields    *)
(* only when the field is absent.                                          *)

\* the property is in the payload, whatever its value
Present(v) == v.t # "undefined"

Reported(e) == \E i \in 1..Len(val.errors) : val.errors[i] = e

\* C25: present non-string vehicleId gives "must be a string", present non-array items "must be an array", "is required" only for absent fields
C25_RequiredOnlyWhenAbsent ==
  (op = "VALIDATE" /\ request.body.t = "object") =>
    /\ (Present(request.body.vehicleId) /\ request.body.vehicleId.t # "string") =>
         /\ Reported(Err("vehicleId", "must be a string"))
         /\ ~Reported(Err("vehicleId", "is required"))
    /\ (Present(request.body.items) /\ request.body.items.t # "array") =>
         Reported(Err("items", "must be an array"))
    /\ Reported(Err("vehicleId", "is required")) => ~Present(request.body.vehicleId)
    /\ Reported(Err("items", "is required")) => ~Present(request.body.items)

----------------------------------------------------------------------------
(* C26: for an items array the validator reports each of the five keys     *)
(* that does not occur as a valid key exactly once as missing, the         *)
(* duplicate error exactly when the array has 5 elements and fewer than 5  *)
(* distinct valid keys, and the length error when it has not 5 elements.   *)

\* the keys of the enumeration that occur in the array
ValidKeysIn(els) ==
  {k \in FiveKeys : \E i \in 1..Len(els) : els[i].key.t = "string" /\ els[i].key.s = k}

MissingKey(k) ==
  [field |-> [name |-> "items", index |-> -1, prop |-> ""],
   reason |-> "missing required key: ", arg |-> k]

\* how many times the error e is among the errors returned
Times(e) == Cardinality({i \in 1..Len(val.errors) : val.errors[i] = e})

\* C26: one "missing required key" per key that does not occur, the duplicate error iff 5 elements and < 5 distinct keys, the length error iff not 5 elements
C26_MissingAndDuplicateKeys ==
  (op = "VALIDATE" /\ request.body.t = "object" /\ request.body.items.t = "array") =>
    LET els == request.body.items.els
    IN /\ \A k \in FiveKeys :
            Times(MissingKey(k)) = IF k \in ValidKeysIn(els) THEN 0 ELSE 1
       /\ Times(Err("items", "must contain all 5 keys exactly once (no duplicates)"))
            = IF Len(els) = 5 /\ Cardinality(ValidKeysIn(els)) < 5 THEN 1 ELSE 0
       /\ Times(Err("items", "must contain exactly 5 items"))
            = IF Len(els) # 5 THEN 1 ELSE 0

----------------------------------------------------------------------------
(* C27: in one server process a handler runs its read, compute and write   *)
(* without yielding, so requests never interleave inside a                 *)
(* read-modify-write: every POST /checks that answers 201 has added its    *)
(* record to the records the store held, and a set of such requests        *)
(* leaves one new record for each of them.                                 *)

\* C27: a POST that answers 201 leaves the store as it was plus its one new record
C27_EachCreatedPostAddsItsRecord ==
  [][(CreateStep /\ response'.status = 201) =>
       /\ Len(svc'.created) = 1
       /\ checksFile' = Append(checksFile, svc'.created[1])]_vars

----------------------------------------------------------------------------
(* frontend/src/CheckHistory.tsx.  history holds the component's state     *)
(* (selectedVehicle, hasIssueFilter, checks, lastFetchedParams; null is    *)
(* <<>>), its prop refreshTrigger, and effects: one entry for each run of  *)
(* the fetch effect that issued a request, with the closure's variables    *)
(* currentParams and cancelled and the state of its promise.  changed is   *)
(* not in the code: it records that a dependency changed after the         *)
(* request was issued.  A render and the effect it triggers are one step.  *)

\* at most this many getChecks requests are issued
MaxRequests == 3

\* the parent raises refreshTrigger at most this many times
MaxRefresh == 1

IssueFilters == {"all", "true", "false"}

\* the options of the vehicle select: "Select a vehicle" and the vehicles
VehicleOptions == {""} \cup Vehicles

\* {vehicle: selectedVehicle, filter: hasIssueFilter, trigger: refreshTrigger}
CurrentParams(h) ==
  [vehicle |-> h.selectedVehicle, filter |-> h.hasIssueFilter, trigger |-> h.refreshTrigger]

\* the derived loading state
Loading(h) ==
  /\ h.selectedVehicle # ""
  /\ \/ h.lastFetchedParams = <<>>
     \/ h.lastFetchedParams[1].vehicle # h.selectedVehicle
     \/ h.lastFetchedParams[1].filter # h.hasIssueFilter
     \/ h.lastFetchedParams[1].trigger # h.refreshTrigger

\* what the server answers to the request of effect i: checks of that vehicle and filter
Data(effects, i) ==
  [request |-> i, vehicleId |-> effects[i].currentParams.vehicle,
   hasIssue |-> effects[i].hasIssueParam]

cleanup_forgets(effects) == effects

\* the cleanup functions React runs before the effect runs again: cancelled = true
cleanup(effects) ==
  [i \in 1..Len(effects) |-> [effects[i] EXCEPT !.cancelled = TRUE]]

\* the body of the fetch effect, run after a render in which a dependency changed
fetchEffect(h) ==
  IF h.selectedVehicle = "" THEN h
  ELSE [h EXCEPT !.effects =
          Append(@, [currentParams |-> CurrentParams(h),
                     hasIssueParam |-> IF h.hasIssueFilter = "all" THEN "undefined"
                                       ELSE h.hasIssueFilter,
                     cancelled |-> FALSE, changed |-> FALSE, promise |-> "pending"])]

\* React after a state or prop change: when a dependency of the effect differs,
\* the previous cleanup runs and then the effect
render(old, new) ==
  IF CurrentParams(old) = CurrentParams(new) THEN new
  ELSE fetchEffect([new EXCEPT !.effects =
                      [i \in 1..Len(@) |-> [cleanup(new.effects)[i] EXCEPT !.changed = TRUE]]])

handleVehicleChange(h, vehicleId) ==
  LET s == [h EXCEPT !.selectedVehicle = vehicleId]
  IN IF vehicleId = "" THEN [s EXCEPT !.checks = <<>>, !.lastFetchedParams = <<>>]
     ELSE s

\* the .then callback of effect i
thenCallback(h, i) ==
  IF ~h.effects[i].cancelled
  THEN [h EXCEPT !.checks = <<Data(h.effects, i)>>,
                 !.lastFetchedParams = <<h.effects[i].currentParams>>]
  ELSE h

HistoryFrame ==
  UNCHANGED <<checksFile, nextId, clock, op, request, val, svc, response,
              running, toasts, toastIdCounter, toastCall>>

\* the user picks an option of the vehicle select
VehicleChange ==
  \E vehicleId \in VehicleOptions :
    /\ Len(history.effects) < MaxRequests
    /\ history' = render(history, handleVehicleChange(history, vehicleId))
    /\ HistoryFrame

\* the user picks an option of the issue filter, shown while a vehicle is selected
FilterChange ==
  \E filter \in IssueFilters :
    /\ history.selectedVehicle # ""
    /\ Len(history.effects) < MaxRequests
    /\ history' = render(history, [history EXCEPT !.hasIssueFilter = filter])
    /\ HistoryFrame

\* App raises refreshKey after a check was submitted
Refresh ==
  /\ history.refreshTrigger < MaxRefresh
  /\ Len(history.effects) < MaxRequests
  /\ history' = render(history, [history EXCEPT !.refreshTrigger = @ + 1])
  /\ HistoryFrame

\* api.getChecks of effect i resolves
Resolve ==
  \E i \in 1..Len(history.effects) :
    /\ history.effects[i].promise = "pending"
    /\ history' = [thenCallback(history, i) EXCEPT !.effects[i].promise = "resolved"]
    /\ HistoryFrame

\* api.getChecks of effect i rejects (network error, or a response that is not ok):
\* .catch(console.error)
Reject ==
  \E i \in 1..Len(history.effects) :
    /\ history.effects[i].promise = "pending"
    /\ history' = [history EXCEPT !.effects[i].promise = "rejected"]
    /\ HistoryFrame

NextHistory == VehicleChange \/ FilterChange \/ Refresh \/ Resolve \/ Reject

SpecHistory == Init /\ [][NextHistory]_vars

----------------------------------------------------------------------------
(* C28: a getChecks response is applied to the displayed list only if      *)
(* vehicle, filter and refresh trigger have not changed since its request  *)
(* was issued; any other response leaves the displayed checks alone, in    *)
(* whatever order responses arrive.                                        *)

\* the request of effect i resolves in this step
Resolves(i) == history.effects[i].promise = "pending" /\ history'.effects[i].promise = "resolved"

\* C28: a response replaces the displayed checks exactly when no parameter changed since its request; after deselecting nothing is displayed
C28_OnlyCurrentResponseApplied ==
  /\ [](history.selectedVehicle = "" => history.checks = <<>>)
  /\ [][\A i \in 1..Len(history.effects) :
          Resolves(i) =>
            IF history.effects[i].changed
            THEN /\ history'.checks = history.checks
                 /\ history'.lastFetchedParams = history.lastFetchedParams
            ELSE /\ history.effects[i].currentParams = CurrentParams(history)
                 /\ history'.checks = <<Data(history.effects, i)>>
                 /\ history'.lastFetchedParams = <<CurrentParams(history)>>]_vars

\* the first request was superseded and has resolved; the displayed checks are those of the second
C28_Witness ==
  /\ Len(history.effects) >= 2
  /\ history.effects[1].promise = "resolved" /\ history.effects[1].changed
  /\ history.effects[1].currentParams.vehicle # history.selectedVehicle
  /\ history.checks = <<Data(history.effects, 2)>>

----------------------------------------------------------------------------
(* C29: once the request for the current vehicle, filter and refresh       *)
(* trigger has completed, with data or with an error, loading is false.    *)

\* the request issued for the current parameters, not superseded since
CurrentRequestCompleted ==
  \E i \in 1..Len(history.effects) :
    /\ ~history.effects[i].changed
    /\ history.effects[i].promise \in {"resolved", "rejected"}

\* C29: with a vehicle selected, loading is false once the current request has resolved or rejected
C29_LoadingEndsWhenRequestCompletes ==
  (history.selectedVehicle # "" /\ CurrentRequestCompleted) => ~Loading(history)

----------------------------------------------------------------------------
(* frontend/src/useToast.ts *)

\* showToast is called at most this many times
MaxToasts == 3

\* the messages CheckForm shows
ToastMessages == {"Inspection submitted successfully", "Submission failed. Please check errors."}

ToastTypes == {"success", "error"}

showToast_lengthId(shown, counter, message, type) ==
  [toastIdCounter |-> counter + 1,
   toasts |-> Append(shown, [id |-> Len(shown) + 1, message |-> message, type |-> type])]

\* const id = ++toastIdCounter; setToasts((prev) => [...prev, { id, message, type }])
showToast(shown, counter, message, type) ==
  [toastIdCounter |-> counter + 1,
   toasts |-> Append(shown, [id |-> counter + 1, message |-> message, type |-> type])]

\* setToasts((prev) => prev.filter((toast) => toast.id !== id))
dismissToast(shown, id) == SelectSeq(shown, LAMBDA toast : toast.id # id)

ToastFrame ==
  UNCHANGED <<checksFile, nextId, clock, op, request, val, svc, response, running, history>>

ShowToast ==
  \E message \in ToastMessages, type \in ToastTypes :
    LET r == showToast(toasts, toastIdCounter, message, type)
    IN /\ toastIdCounter < MaxToasts
       /\ toasts' = r.toasts
       /\ toastIdCounter' = r.toastIdCounter
       /\ toastCall' = [fn |-> "showToast", id |-> r.toastIdCounter]
       /\ ToastFrame

\* the close button or the 4 s timer of a toast, or any other caller with any id
DismissToast ==
  \E id \in 0..MaxToasts :
    /\ toasts' = dismissToast(toasts, id)
    /\ toastCall' = [fn |-> "dismissToast", id |-> id]
    /\ UNCHANGED toastIdCounter
    /\ ToastFrame

NextToast == ShowToast \/ DismissToast

SpecToast == Init /\ [][NextToast]_vars

----------------------------------------------------------------------------
(* C30: every toast gets an id greater than every id given before, and     *)
(* dismissToast(id) removes exactly the toast with that id: the others     *)
(* stay, in their order; an id that is not shown changes nothing.          *)

ToastIds(shown) == {shown[i].id : i \in 1..Len(shown)}

\* the toasts of shown other than the one with this id, in their order
OtherToasts(shown, id) ==
  LET keep == {i \in 1..Len(shown) : shown[i].id # id}
      nth(n) == CHOOSE i \in keep : Cardinality({j \in keep : j < i}) = n - 1
  IN [n \in 1..Cardinality(keep) |-> shown[nth(n)]]

\* C30: toast ids strictly increase and are never reused; dismissToast(id) removes that toast only, and nothing when it is not shown
C30_ToastIdsFreshDismissExact ==
  /\ [](\A i, j \in 1..Len(toasts) : i < j => toasts[i].id < toasts[j].id)
  /\ [](\A id \in ToastIds(toasts) : id <= toastIdCounter)
  /\ [][toastCall'.fn = "showToast" /\ toastCall' # toastCall =>
          /\ toastCall'.id > toastIdCounter
          /\ toastIdCounter' = toastCall'.id
          /\ Len(toasts') = Len(toasts) + 1
          /\ toasts'[Len(toasts')].id = toastCall'.id
          /\ SubSeq(toasts', 1, Len(toasts)) = toasts]_vars
  /\ [][toastCall'.fn = "dismissToast" =>
          /\ toasts' = OtherToasts(toasts, toastCall'.id)
          /\ toastCall'.id \notin ToastIds(toasts) => toasts' = toasts
          /\ toastIdCounter' = toastIdCounter]_vars

\* three toasts were shown and the middle one has been dismissed
C30_Witness ==
  /\ toastCall = [fn |-> "dismissToast", id |-> 2]
  /\ Len(toasts) = 2
  /\ toasts[1].id = 1 /\ toasts[2].id = 3
  /\ toastIdCounter = 3

====
